---------------------------- MODULE Spec2Model ----------------------------
(***************************************************************************)
(* Model of the agent-to-agent conversation orchestrator                   *)
(* (AgentToAgentConversation in tests/multi_turn_with_agent.py) together   *)
(* with the chat-completion client it drives                               *)
(* (AzureAIAgentClient in testinglib/azure_ai_agent_client.py).            *)
(*                                                                         *)
(* Texts are sequences of one-character strings, so that str.strip() and   *)
(* string concatenation are computed rather than assumed.  One step of the *)
(* model is the code that runs between two suspension points of the        *)
(* coroutine start_conversation.                                           *)
(***************************************************************************)
EXTENDS Integers, Sequences, FiniteSets, TLC

VARIABLES
    MAX_TURNS,             \* the module global MAX_TURNS (configuration)
    turns,                 \* self.turns
    current_turn,          \* self.current_turn
    pc,                    \* where start_conversation is suspended
    initial_topic,         \* the argument of the running / last call
    copilot_response,      \* the local copilot_response of the loop body
    activities,            \* activities yielded so far by the current stream
    conversation_history,  \* AzureAIAgentClient.conversation_history
    messages,              \* the prompt of the last chat-completion request
    next_message,          \* the local next_message of the loop body
    calls,                 \* endpoint calls issued by the running / last call
    starts,                \* number of start_conversation calls so far
    total_calls,           \* endpoint calls issued over the whole session
    prev_turns,            \* self.turns as the last call found it
    prev_pc,               \* the state the last call found the orchestrator in
    echoed,                \* every endpoint call of this conversation echoed
    failed,                \* an endpoint call of the running / last call failed
    view,                  \* what the last transcript / summary call returned
    client_pc,             \* where a direct call of the client is suspended
    client_turn,           \* the turn_number argument of that call
    client_incoming,       \* the other_agent_response argument of that call
    client_result,         \* what the last direct call of the client returned
    last_op,               \* the last operation made directly on the client
    history_before,        \* conversation_history as that operation found it
    held,                  \* the list a caller got from get_conversation_history
    client_ops             \* number of direct operations on the client so far

vars == <<MAX_TURNS, turns, current_turn, pc, initial_topic, copilot_response,
          activities, conversation_history, messages, next_message,
          calls, starts, total_calls, prev_turns, prev_pc, echoed, failed, view,
          client_pc, client_turn, client_incoming,
          client_result, last_op, history_before, held,
          client_ops>>

clientVars == <<client_pc, client_turn, client_incoming,
                client_result, last_op, history_before,
                held, client_ops>>

----------------------------------------------------------------------------
(* Bounds of the model *)

MaxCap == 4

MaxFragments == 2

MaxCalls == 4

MaxStarts == 2
(* SpecViews: largest MAX_TURNS, number of start_conversation calls and    *)
(* longest run of view calls                                               *)
MaxViewCap == 3
MaxViewStarts == 1
MaxViews == 2
(* SpecViews, SpecDefault: longest stream of one Copilot Studio call *)
MaxDefaultFragments == 1
(* SpecLive: largest MAX_TURNS *)
MaxLiveCap == 3
(* SpecClient: number of operations made directly on the client *)
MaxClientOps == 3

----------------------------------------------------------------------------
(* Texts *)

(* The characters str.strip() removes (line 162): the 29 code points for   *)
(* which str.isspace() is true.  A character is a one-character string; a  *)
(* code point that a TLA+ string cannot hold is written as its name        *)
(* "U+XXXX", one string for one character.                                 *)
Whitespace ==
    { "\t", "\n", "U+000B", "\f", "\r",
      "U+001C", "U+001D", "U+001E", "U+001F", " ", "U+0085", "U+00A0",
      "U+1680", "U+2000", "U+2001", "U+2002", "U+2003", "U+2004", "U+2005",
      "U+2006", "U+2007", "U+2008", "U+2009", "U+200A", "U+2028", "U+2029",
      "U+202F", "U+205F", "U+3000" }

RECURSIVE LStrip(_)
LStrip(s) ==
    IF s = <<>> THEN s
    ELSE IF Head(s) \in Whitespace THEN LStrip(Tail(s)) ELSE s

RECURSIVE RStrip(_)
RStrip(s) ==
    IF s = <<>> THEN s
    ELSE IF s[Len(s)] \in Whitespace THEN RStrip(SubSeq(s, 1, Len(s) - 1)) ELSE s

Strip(s) == RStrip(LStrip(s))

Hello == <<"H", "e", "l", "l", "o">>

EchoPrefix == <<"e", "c", "h", "o", ":">>

Echo(s) == EchoPrefix \o s

Topics == {Hello, <<" ", "t", " ">>}


Digit(d) == <<"0", "1", "2", "3", "4", "5", "6", "7", "8", "9">>[d + 1]

RECURSIVE Decimal(_)
Decimal(n) ==
    IF n < 0 THEN <<"-">> \o Decimal(0 - n)
    ELSE IF n < 10 THEN <<Digit(n)>>
    ELSE Decimal(n \div 10) \o <<Digit(n % 10)>>

----------------------------------------------------------------------------
(* Data model *)

ConversationTurn(turn_number, sender, message) ==
    [turn_number |-> turn_number, sender |-> sender, message |-> message,
     timestamp |-> 0]

(* What the streaming endpoint may yield for one question: no activity,   *)
(* an activity of another type, a message activity without text, and       *)
(* message activities with blank text, padded text and the echo of the     *)
(* question.                                                               *)
Activity(present, type, has_text, text) ==
    [present |-> present, type |-> type, has_text |-> has_text, text |-> text]

Activities(question) ==
    { Activity(FALSE, "none", FALSE, <<>>),
      Activity(TRUE, "typing", TRUE, <<"x">>),
      Activity(TRUE, "message", FALSE, <<>>),
      Activity(TRUE, "message", TRUE, <<"\r">>),
      Activity(TRUE, "message", TRUE, <<" ", "b", "U+00A0">>),
      Activity(TRUE, "message", TRUE, Echo(question)) }

(* What the chat-completion service may answer to one incoming message. *)
Completions(incoming) ==
    { <<>>, <<" ", "a", " ">>, Echo(incoming) }

SystemPrompt == <<"S">>

(* line 145: the instruction before and after the turn number *)
ContinuePrefix ==
    <<"C", "o", "n", "t", "i", "n", "u", "e", " ", "t", "h", "e", " ", "c",
      "o", "n", "v", "e", "r", "s", "a", "t", "i", "o", "n", " ", "b", "a",
      "s", "e", "d", " ", "o", "n", " ", "t", "h", "e", " ", "r", "e", "s",
      "p", "o", "n", "s", "e", " ", "a", "b", "o", "v", "e", ".", " ", "T",
      "h", "i", "s", " ", "i", "s", " ", "t", "u", "r", "n", " ">>

ContinueSuffix ==
    <<" ", "o", "f", " ", "t", "h", "e", " ", "c", "o", "n", "v", "e", "r",
      "s", "a", "t", "i", "o", "n", ".">>

(* lines 133-146 of azure_ai_agent_client.py: the prompt of one request *)
BuildMessages(history, turn_number) ==
    <<[role |-> "system", content |-> SystemPrompt]>>
    \o [i \in 1..Len(history) |->
          IF history[i].role = "assistant"
          THEN [role |-> "assistant", content |-> history[i].content]
          ELSE [role |-> "user", content |-> history[i].content]]
    \o <<[role |-> "user",
          content |-> ContinuePrefix \o Decimal(turn_number + 1)
                      \o ContinueSuffix]>>

Call(to, input) == [to |-> to, input |-> input]

Last(s) == s[Len(s)]

----------------------------------------------------------------------------
(* The views of the orchestrator *)

AzureLabel ==
    <<"A", "z", "u", "r", "e", " ", "A", "I", " ", "A", "g", "e", "n", "t">>

CopilotLabel ==
    <<"C", "o", "p", "i", "l", "o", "t", " ", "S", "t", "u", "d", "i", "o">>

(* line 198: sender_label *)
SenderLabel(sender) ==
    IF sender = "azure_ai_agent" THEN AzureLabel ELSE CopilotLabel

(* line 199: f"Turn {turn.turn_number} - {sender_label}: {turn.message}\n\n" *)
TurnEntry(turn) ==
    <<"T", "u", "r", "n", " ">> \o Decimal(turn.turn_number) \o <<" ", "-", " ">>
    \o SenderLabel(turn.sender) \o <<":", " ">> \o turn.message \o <<"\n", "\n">>

(* a renderer that puts every new entry in front of the text *)
RECURSIVE AppendEntriesInFront(_, _, _)
AppendEntriesInFront(conversation_text, ts, i) ==
    IF i > Len(ts) THEN conversation_text
    ELSE AppendEntriesInFront(TurnEntry(ts[i]) \o conversation_text, ts, i + 1)

(* lines 196-200: the loop over self.turns, from turn i on *)
RECURSIVE AppendEntries(_, _, _)
AppendEntries(conversation_text, ts, i) ==
    IF i > Len(ts) THEN conversation_text
    ELSE AppendEntries(conversation_text \o TurnEntry(ts[i]), ts, i + 1)

get_full_conversation_text(ts) == AppendEntries(<<>>, ts, 1)

(* line 217: one entry of the summary's turn list *)
SummaryTurn(t) == [turn |-> t.turn_number, sender |-> t.sender, message |-> t.message]

(* a count keyed on the display label instead of the sender *)
IsAzureByLabel(t) == t.sender = "Azure AI Agent"

IsAzure(t) == t.sender = "azure_ai_agent"

(* a count keyed on the display label instead of the sender *)
IsCopilotByLabel(t) == t.sender = "Copilot Studio"

IsCopilot(t) == t.sender = "copilot_studio"

get_conversation_summary(ts) ==
    [total_turns          |-> Len(ts),
     azure_ai_turns       |-> Len(SelectSeq(ts, IsAzure)),
     copilot_studio_turns |-> Len(SelectSeq(ts, IsCopilot)),
     conversation_length  |-> Len(get_full_conversation_text(ts)),
     turns                |-> [i \in 1..Len(ts) |-> SummaryTurn(ts[i])]]

(* the value of view while no transcript / summary call has returned *)
NoView ==
    [kind |-> "none", text |-> <<>>, summary |-> get_conversation_summary(<<>>),
     seq |-> 0]

----------------------------------------------------------------------------
(* Initial state: the orchestrator and the client right after construction *)

InitBody ==
    /\ turns = <<>>
    /\ current_turn = 0
    /\ pc = "idle"
    /\ initial_topic = <<>>
    /\ copilot_response = <<>>
    /\ activities = <<>>
    /\ conversation_history = <<>>
    /\ messages = <<>>
    /\ next_message = <<>>
    /\ calls = <<>>
    /\ starts = 0
    /\ total_calls = 0
    /\ prev_turns = <<>>
    /\ prev_pc = "idle"
    /\ echoed = TRUE
    /\ failed = FALSE
    /\ view = NoView
    /\ client_pc = "idle"
    /\ client_turn = 0
    /\ client_incoming = <<>>
    /\ client_result = <<>>
    /\ last_op = "none"
    /\ history_before = <<>>
    /\ held = <<>>
    /\ client_ops = 0

Init ==
    /\ MAX_TURNS \in 0..MaxCap
    /\ InitBody

----------------------------------------------------------------------------
(* start_conversation, lines 133-145: reset, seed turn 1, first sleep *)

CallsNeeded == IF MAX_TURNS > 1 THEN MAX_TURNS - 1 ELSE 0

(* a counter advanced twice per turn *)
IncrementTwice(current) == current + 2

(* lines 141, 161, 178: self.current_turn += 1 *)
Increment(current) == current + 1

(* a seed turn that trims the topic *)
SeedTurnsStripped(old_turns, old_current, topic) ==
    [turns        |-> <<ConversationTurn(1, "azure_ai_agent", Strip(topic))>>,
     current_turn |-> 1]

(* a start that does not clear the state of the previous call *)
SeedTurnsKeep(old_turns, old_current, topic) ==
    [turns        |-> Append(old_turns,
                             ConversationTurn(old_current + 1, "azure_ai_agent", topic)),
     current_turn |-> old_current + 1]

(* a start that clears the turns and keeps the counter *)
SeedTurnsCounterKept(old_turns, old_current, topic) ==
    [turns        |-> <<ConversationTurn(1, "azure_ai_agent", topic)>>,
     current_turn |-> old_current + 1]

(* lines 135-142: the state is cleared, then turn 1 is the topic itself *)
SeedTurns(old_turns, old_current, topic) ==
    LET cleared_turns   == <<>>
        cleared_current == 0
        current         == Increment(cleared_current)
        initial_message == topic
    IN  [turns        |-> Append(cleared_turns,
                                 ConversationTurn(current, "azure_ai_agent",
                                                  initial_message)),
         current_turn |-> current]

(* a loop whose condition never ends it *)
WhileConditionAlways(current) == TRUE

(* a loop that gives up one turn before the cap *)
WhileConditionShort(current) == current < MAX_TURNS - 1

(* line 149: the condition of the while loop *)
WhileCondition(current) == current < MAX_TURNS

(* the first message forwarded again instead of the latest one *)
CurrentMessageFirst(ts) == ts[1].message

(* line 151: the message forwarded to Copilot Studio *)
CurrentMessage(ts) == Last(ts).message

(* a Copilot Studio turn recorded under the other sender *)
CopilotTurnAsAzure(current, response) ==
    ConversationTurn(current, "azure_ai_agent", Strip(response))

(* line 162: the turn recorded for Copilot Studio *)
CopilotTurn(current, response) ==
    ConversationTurn(current, "copilot_studio", Strip(response))

(* line 179: the turn recorded for the Azure AI agent *)
AzureTurn(current, content) ==
    ConversationTurn(current, "azure_ai_agent", content)

(* a start that also resets the client, as reset_conversation would *)
StartBodyReset(topic) ==
    /\ pc \in {"idle", "done", "raised"}
    /\ LET seeded == SeedTurns(turns, current_turn, topic)
       IN  /\ turns' = seeded.turns
           /\ current_turn' = seeded.current_turn
    /\ initial_topic' = topic
    /\ pc' = "sleep"
    /\ calls' = <<>>
    /\ starts' = starts + 1
    /\ prev_turns' = turns
    /\ prev_pc' = pc
    /\ copilot_response' = <<>>
    /\ activities' = <<>>
    /\ next_message' = <<>>
    /\ echoed' = TRUE
    /\ conversation_history' = <<>>
    /\ UNCHANGED <<MAX_TURNS, messages, total_calls>>
    /\ failed' = FALSE
    /\ view' = NoView
    /\ UNCHANGED clientVars

(* lines 133-145 *)
StartBody(topic) ==
    /\ pc \in {"idle", "done", "raised"}
    /\ LET seeded == SeedTurns(turns, current_turn, topic)
       IN  /\ turns' = seeded.turns
           /\ current_turn' = seeded.current_turn
    /\ initial_topic' = topic
    /\ pc' = "sleep"
    /\ calls' = <<>>
    /\ starts' = starts + 1
    /\ prev_turns' = turns
    /\ prev_pc' = pc
    /\ copilot_response' = <<>>
    /\ activities' = <<>>
    /\ next_message' = <<>>
    /\ echoed' = TRUE
    /\ UNCHANGED <<MAX_TURNS, conversation_history, messages, total_calls>>
    /\ failed' = FALSE
    /\ view' = NoView
    /\ UNCHANGED clientVars

(* start_conversation within the budget of starts and endpoint calls *)
StartConversation(topic) ==
    /\ starts < MaxStarts
    /\ total_calls + CallsNeeded <= MaxCalls
    /\ StartBody(topic)

(* a loop head that sends the message to both endpoints at once *)
AskQuestionBoth ==
    /\ pc = "sleep"
    /\ WhileCondition(current_turn)
    /\ LET current_message == CurrentMessage(turns)
       IN  calls' = calls \o <<Call("copilot_studio", current_message),
                               Call("azure_ai_agent", current_message)>>
    /\ copilot_response' = <<>>
    /\ activities' = <<>>
    /\ next_message' = <<>>
    /\ total_calls' = total_calls + 2
    /\ pc' = "stream"
    /\ view' = NoView
    /\ UNCHANGED <<MAX_TURNS, turns, current_turn, initial_topic,
                   conversation_history, messages, starts, prev_turns, prev_pc,
                   echoed, failed, clientVars>>

(* line 149 true, lines 151-156: the stream to Copilot Studio is opened *)
AskQuestion ==
    /\ pc = "sleep"
    /\ WhileCondition(current_turn)
    /\ LET current_message == CurrentMessage(turns)
       IN  calls' = Append(calls, Call("copilot_studio", current_message))
    /\ copilot_response' = <<>>
    /\ activities' = <<>>
    /\ next_message' = <<>>
    /\ total_calls' = total_calls + 1
    /\ pc' = "stream"
    /\ UNCHANGED <<MAX_TURNS, turns, current_turn, initial_topic,
                   conversation_history, messages, starts, prev_turns, prev_pc,
                   echoed>>
    /\ UNCHANGED failed
    /\ view' = NoView
    /\ UNCHANGED clientVars

(* line 149 false, line 184: the while condition ends the loop *)
LoopExit ==
    /\ pc = "sleep"
    /\ ~WhileCondition(current_turn)
    /\ pc' = "done"
    /\ UNCHANGED <<MAX_TURNS, turns, current_turn, initial_topic,
                   copilot_response, activities, conversation_history,
                   messages, next_message, calls, starts, total_calls,
                   prev_turns, prev_pc, echoed>>
    /\ UNCHANGED failed
    /\ view' = NoView
    /\ UNCHANGED clientVars

(* a collector that takes the text of activities of any type *)
CollectAnyType(response, activity) ==
    IF activity.present
    THEN response \o (IF activity.has_text THEN activity.text ELSE <<>>)
    ELSE response

(* lines 156-158: one activity of the stream *)
Collect(response, activity) ==
    IF activity.present /\ activity.type = "message"
    THEN response \o (IF activity.has_text THEN activity.text ELSE <<>>)
    ELSE response

NextActivity(activity) ==
    /\ pc = "stream"
    /\ Len(activities) < MaxFragments
    /\ copilot_response' = Collect(copilot_response, activity)
    /\ activities' = Append(activities, activity)
    /\ UNCHANGED <<MAX_TURNS, turns, current_turn, pc, initial_topic,
                   conversation_history, messages, next_message, calls, starts,
                   total_calls, prev_turns, prev_pc, echoed>>
    /\ UNCHANGED failed
    /\ view' = NoView
    /\ UNCHANGED clientVars

(* a termination test on the untrimmed response *)
TerminatesUnstripped(current, response) ==
    current >= MAX_TURNS \/ response = <<>>

(* a termination test that stops one turn before the cap *)
TerminatesEarly(current, response) ==
    current >= MAX_TURNS - 1 \/ Strip(response) = <<>>

(* a termination test that stops on a non-empty response *)
TerminatesInverted(current, response) ==
    current >= MAX_TURNS \/ Strip(response) # <<>>

(* line 168: the termination test after the Copilot Studio turn *)
Terminates(current, response) ==
    current >= MAX_TURNS \/ Strip(response) = <<>>

(* an incoming message filed as a message of the agent's own *)
HistoryReceivedAsProduced(history, other_agent_response, turn_number) ==
    Append(history, [role |-> "assistant", content |-> other_agent_response,
                     turn |-> turn_number])

(* lines 126-130 of the client: the incoming message enters the history *)
HistoryReceived(history, other_agent_response, turn_number) ==
    Append(history, [role |-> "user", content |-> other_agent_response,
                     turn |-> turn_number])

(* a produced message filed under the number of the incoming one *)
HistoryProducedSameTurn(history, content, turn_number) ==
    Append(history, [role |-> "assistant", content |-> content,
                     turn |-> turn_number])

(* lines 161-165 of the client: the produced message enters the history *)
HistoryProduced(history, content, turn_number) ==
    Append(history, [role |-> "assistant", content |-> content,
                     turn |-> turn_number + 1])

(* lines 160-177 and 125-150: the stream is exhausted; the turn is         *)
(* recorded, the termination test is made and, when the loop goes on, the  *)
(* request to the Azure AI agent is sent.                                  *)
StreamEnd ==
    /\ pc = "stream"
    /\ LET current == Increment(current_turn)
           text    == Strip(copilot_response)
       IN  /\ current_turn' = current
           /\ turns' = Append(turns, CopilotTurn(current, copilot_response))
           /\ IF Terminates(current, copilot_response)
              THEN /\ pc' = "done"
                   /\ UNCHANGED <<conversation_history, messages, calls, total_calls>>
              ELSE IF current < MAX_TURNS
              THEN /\ conversation_history' =
                          HistoryReceived(conversation_history, text, current)
                   /\ messages' = BuildMessages(conversation_history', current)
                   /\ calls' = Append(calls, Call("azure_ai_agent", text))
                   /\ total_calls' = total_calls + 1
                   /\ pc' = "await"
              ELSE /\ pc' = "done"
                   /\ UNCHANGED <<conversation_history, messages, calls, total_calls>>
    /\ echoed' = (echoed /\ copilot_response = Echo(Last(calls).input))
    /\ UNCHANGED <<MAX_TURNS, initial_topic, copilot_response, activities,
                   next_message, starts, prev_turns, prev_pc>>
    /\ UNCHANGED failed
    /\ view' = NoView
    /\ UNCHANGED clientVars

(* a stream that is opened again after it raised *)
StreamRaiseRetry ==
    /\ pc = "stream"
    /\ calls' = Append(calls, Last(calls))
    /\ total_calls' = total_calls + 1
    /\ copilot_response' = <<>>
    /\ activities' = <<>>
    /\ failed' = TRUE
    /\ view' = NoView
    /\ UNCHANGED <<MAX_TURNS, turns, current_turn, pc, initial_topic,
                   conversation_history, messages, next_message, starts,
                   prev_turns, prev_pc, echoed, clientVars>>

(* the stream raises: the exception leaves start_conversation *)
StreamRaise ==
    /\ pc = "stream"
    /\ pc' = "raised"
    /\ UNCHANGED <<MAX_TURNS, turns, current_turn, initial_topic,
                   copilot_response, activities, conversation_history,
                   messages, next_message, calls, starts, total_calls,
                   prev_turns, prev_pc, echoed>>
    /\ failed' = TRUE
    /\ view' = NoView
    /\ UNCHANGED clientVars

(* lines 158-167 of the client and 178-182: the completion arrives *)
AzureReturn(content) ==
    /\ pc = "await"
    /\ LET turn_number == current_turn
           current     == Increment(current_turn)
       IN  /\ conversation_history' =
                  HistoryProduced(conversation_history, content, turn_number)
           /\ current_turn' = current
           /\ turns' = Append(turns, AzureTurn(current, content))
    /\ next_message' = content
    /\ copilot_response' = <<>>
    /\ activities' = <<>>
    /\ pc' = "sleep"
    /\ echoed' = (echoed /\ content = Echo(Last(calls).input))
    /\ UNCHANGED <<MAX_TURNS, initial_topic, messages, calls, starts,
                   total_calls, prev_turns, prev_pc>>
    /\ UNCHANGED failed
    /\ view' = NoView
    /\ UNCHANGED clientVars

(* an error path that throws the turns away *)
AzureRaiseDiscard ==
    /\ pc = "failing"
    /\ pc' = "raised"
    /\ turns' = <<>>
    /\ current_turn' = 0
    /\ failed' = TRUE
    /\ view' = NoView
    /\ UNCHANGED <<MAX_TURNS, initial_topic, copilot_response, activities,
                   conversation_history, messages, next_message, calls, starts,
                   total_calls, prev_turns, prev_pc, echoed, clientVars>>

(* lines 168-170 of the client: the request fails; the except clause       *)
(* yields to the event loop once (await asyncio.sleep(0)) before it raises *)
AzureFail ==
    /\ pc = "await"
    /\ pc' = "failing"
    /\ failed' = TRUE
    /\ view' = NoView
    /\ UNCHANGED <<MAX_TURNS, turns, current_turn, initial_topic,
                   copilot_response, activities, conversation_history,
                   messages, next_message, calls, starts, total_calls,
                   prev_turns, prev_pc, echoed, clientVars>>

(* line 171 of the client: the new exception leaves continue_conversation  *)
(* and, uncaught at line 173, start_conversation                           *)
AzureRaise ==
    /\ pc = "failing"
    /\ pc' = "raised"
    /\ UNCHANGED <<MAX_TURNS, turns, current_turn, initial_topic,
                   copilot_response, activities, conversation_history,
                   messages, next_message, calls, starts, total_calls,
                   prev_turns, prev_pc, echoed>>
    /\ failed' = TRUE
    /\ view' = NoView
    /\ UNCHANGED clientVars

(* the input of the endpoint call in flight, if any *)
Pending == IF calls = <<>> THEN <<>> ELSE Last(calls).input

Next ==
    \/ \E topic \in Topics : StartConversation(topic)
    \/ AskQuestion
    \/ LoopExit
    \/ \E activity \in Activities(Pending) : NextActivity(activity)
    \/ StreamEnd
    \/ StreamRaise
    \/ \E content \in Completions(Pending) : AzureReturn(content)
    \/ AzureFail
    \/ AzureRaise

Spec == Init /\ [][Next]_vars

----------------------------------------------------------------------------
(* The orchestrator with its two read-only views.  The views are plain     *)
(* methods, so they can run whenever start_conversation is suspended or    *)
(* has ended.  view holds what the latest call returned and how many view  *)
(* calls were made in a row since the state was last changed.              *)

(* the streams of SpecViews and SpecDefault: no activity, an activity of   *)
(* another type, a blank message and a padded message                      *)
DefaultActivities ==
    { Activity(FALSE, "none", FALSE, <<>>),
      Activity(TRUE, "typing", TRUE, <<"x">>),
      Activity(TRUE, "message", TRUE, <<"\r">>),
      Activity(TRUE, "message", TRUE, <<" ", "b", "U+00A0">>) }

(* The text of a completion has no part in the control flow of lines       *)
(* 149-182 (Spec draws it from Completions); here the service answers one  *)
(* text or fails in SpecDefault.                                           *)
DefaultCompletions == { <<"a">> }

orchestratorVars ==
    <<MAX_TURNS, turns, current_turn, pc, initial_topic, copilot_response,
      activities, conversation_history, messages, next_message, calls, starts,
      total_calls, prev_turns, prev_pc, echoed, failed>>

(* lines 186-200 *)
GetFullConversationText ==
    /\ view.seq < MaxViews
    /\ view' = [kind |-> "text", text |-> get_full_conversation_text(turns),
                summary |-> NoView.summary, seq |-> view.seq + 1]
    /\ UNCHANGED <<orchestratorVars, clientVars>>

(* lines 202-218 *)
GetConversationSummary ==
    /\ view.seq < MaxViews
    /\ view' = [kind |-> "summary", text |-> <<>>,
                summary |-> get_conversation_summary(turns), seq |-> view.seq + 1]
    /\ UNCHANGED <<orchestratorVars, clientVars>>

InitViews ==
    /\ MAX_TURNS \in 0..MaxViewCap
    /\ InitBody

NextViews ==
    \/ \E topic \in Topics : starts < MaxViewStarts /\ StartConversation(topic)
    \/ AskQuestion
    \/ LoopExit
    \/ \E activity \in DefaultActivities :
          Len(activities) < MaxDefaultFragments /\ NextActivity(activity)
    \/ StreamEnd
    \/ StreamRaise
    \/ \E content \in Completions(Pending) : AzureReturn(content)
    \/ AzureFail
    \/ AzureRaise
    \/ GetFullConversationText
    \/ GetConversationSummary

SpecViews == InitViews /\ [][NextViews]_vars

----------------------------------------------------------------------------
(* One conversation of a fresh orchestrator under the module's own cap.    *)

(* line 44: MAX_TURNS = 20 *)
DefaultMaxTurns == 20

InitDefault ==
    /\ MAX_TURNS = DefaultMaxTurns
    /\ InitBody

(* The while condition of line 149 is never false at the loop head under   *)
(* this cap (turn 20 is recorded by the Copilot Studio branch, which       *)
(* breaks at line 168), so the exit by line 149 is no step of this         *)
(* specification; C16_DefaultCapTwoSided checks that it is never enabled.  *)
NextDefault ==
    \/ \E topic \in Topics : pc = "idle" /\ StartBody(topic)
    \/ AskQuestion
    \/ \E activity \in DefaultActivities :
          Len(activities) < MaxDefaultFragments /\ NextActivity(activity)
    \/ StreamEnd
    \/ StreamRaise
    \/ \E content \in DefaultCompletions : AzureReturn(content)
    \/ AzureFail
    \/ AzureRaise

SpecDefault == InitDefault /\ [][NextDefault]_vars

----------------------------------------------------------------------------
(* Conversations in which no endpoint call fails and every call returns:   *)
(* the event loop resumes the coroutine when a sleep is over (lines 145,   *)
(* 182), every stream ends after finitely many activities, and every       *)
(* request to the chat-completion service is answered.                     *)

InitLive ==
    /\ MAX_TURNS \in 0..MaxLiveCap
    /\ InitBody

NextLive ==
    \/ \E topic \in Topics : StartConversation(topic)
    \/ AskQuestion
    \/ LoopExit
    \/ \E activity \in DefaultActivities :
          Len(activities) < MaxDefaultFragments /\ NextActivity(activity)
    \/ StreamEnd
    \/ \E content \in Completions(Pending) : AzureReturn(content)

Fairness ==
    /\ WF_vars(AskQuestion)
    /\ WF_vars(LoopExit)
    /\ WF_vars(StreamEnd)
    /\ WF_vars(\E content \in Completions(Pending) : AzureReturn(content))

SpecLive == InitLive /\ [][NextLive]_vars /\ Fairness

----------------------------------------------------------------------------
(* AzureAIAgentClient used directly by a caller.  A Python list holds      *)
(* references: an entry of held is the record the caller sees together     *)
(* with the index of the entry of conversation_history that is the same    *)
(* object (alias 0: an object the client's list does not hold).            *)

clientFrame ==
    <<MAX_TURNS, turns, current_turn, pc, initial_topic, copilot_response,
      activities, next_message, calls, starts, total_calls, prev_turns,
      prev_pc, echoed, failed, view>>

(* line 79 *)
DefaultTopic ==
    <<"H", "e", "l", "l", "o", "!", " ", "I", "'", "m", " ", "l", "o", "o",
      "k", "i", "n", "g", " ", "f", "o", "r", " ", "i", "n", "f", "o", "r",
      "m", "a", "t", "i", "o", "n", " ", "a", "b", "o", "u", "t", " ", "i",
      "n", "d", "u", "s", "t", "r", "i", "a", "l", " ", "s", "a", "f", "e",
      "t", "y", " ", "e", "q", "u", "i", "p", "m", "e", "n", "t", ".", " ",
      "C", "a", "n", " ", "y", "o", "u", " ", "h", "e", "l", "p", " ", "m",
      "e", "?">>

(* line 86: "Start a conversation about: " *)
StartPrefix ==
    <<"S", "t", "a", "r", "t", " ", "a", " ", "c", "o", "n", "v", "e", "r",
      "s", "a", "t", "i", "o", "n", " ", "a", "b", "o", "u", "t", ":", " ">>

ClientTopics == {<<>>, Hello}

ClientIncoming == {<<>>, <<"b">>}

ClientContents == {<<>>, <<"a">>}

ClientTurnNumbers == {1, 2, 9}

(* lines 78-79: if not initial_topic *)
TopicOrDefault(topic) == IF topic = <<>> THEN DefaultTopic ELSE topic

(* a start that keeps the history of the previous exchange *)
KeptHistory(history) == history

(* lines 82 and 179: self.conversation_history = [] *)
ClearedHistory(history) == <<>>

(* lines 84-87 *)
StartMessages(topic) ==
    <<[role |-> "system", content |-> SystemPrompt],
      [role |-> "user", content |-> StartPrefix \o topic]>>

(* lines 102-106 *)
FirstProduced(history, first_message) ==
    Append(history, [role |-> "assistant", content |-> first_message, turn |-> 1])

(* the objects of a list that the client has dropped live on by themselves *)
Detached(list) == [i \in 1..Len(list) |-> [alias |-> 0, rec |-> list[i].rec]]

(* line 175: list.copy() makes a new list of the same objects *)
ShallowCopy(history) == [i \in 1..Len(history) |-> [alias |-> i, rec |-> history[i]]]

(* start_conversation, lines 78-91: up to the request *)
ClientStart(topic) ==
    /\ client_pc = "idle"
    /\ client_ops < MaxClientOps
    /\ history_before' = conversation_history
    /\ conversation_history' = ClearedHistory(conversation_history)
    /\ held' = (IF conversation_history' = conversation_history
                THEN held ELSE Detached(held))
    /\ messages' = StartMessages(TopicOrDefault(topic))
    /\ client_pc' = "starting"
    /\ client_turn' = 0
    /\ client_incoming' = <<>>
    /\ last_op' = "start_called"
    /\ client_ops' = client_ops + 1
    /\ UNCHANGED <<client_result, clientFrame>>

(* lines 99-108 *)
ClientStartReturn(first_message) ==
    /\ client_pc = "starting"
    /\ conversation_history' = FirstProduced(conversation_history, first_message)
    /\ client_result' = first_message
    /\ client_pc' = "idle"
    /\ last_op' = "start_ok"
    /\ UNCHANGED <<messages, client_turn, client_incoming,
                   history_before, held, client_ops,
                   clientFrame>>

(* lines 109-111: the request fails; await asyncio.sleep(0) yields once *)
ClientStartFail ==
    /\ client_pc = "starting"
    /\ client_pc' = "start_failing"
    /\ UNCHANGED <<conversation_history, messages, client_turn, client_incoming,
                   client_result, last_op, history_before, held, client_ops,
                   clientFrame>>

(* line 112 *)
ClientStartRaise ==
    /\ client_pc = "start_failing"
    /\ client_pc' = "idle"
    /\ last_op' = "start_failed"
    /\ UNCHANGED <<conversation_history, messages, client_turn, client_incoming,
                   client_result,
                   history_before, held, client_ops, clientFrame>>

(* continue_conversation, lines 126-150: up to the request *)
ClientContinue(other_agent_response, turn_number) ==
    /\ client_pc = "idle"
    /\ client_ops < MaxClientOps
    /\ history_before' = conversation_history
    /\ conversation_history' =
           HistoryReceived(conversation_history, other_agent_response, turn_number)
    /\ messages' = BuildMessages(conversation_history', turn_number)
    /\ client_pc' = "continuing"
    /\ client_turn' = turn_number
    /\ client_incoming' = other_agent_response
    /\ last_op' = "continue_called"
    /\ client_ops' = client_ops + 1
    /\ UNCHANGED <<client_result, held, clientFrame>>

(* lines 158-167 *)
ClientContinueReturn(content) ==
    /\ client_pc = "continuing"
    /\ conversation_history' =
           HistoryProduced(conversation_history, content, client_turn)
    /\ client_result' = content
    /\ client_pc' = "idle"
    /\ last_op' = "continue_ok"
    /\ UNCHANGED <<messages, client_turn, client_incoming,
                   history_before, held, client_ops,
                   clientFrame>>

(* lines 168-170: the request fails; await asyncio.sleep(0) yields once *)
ClientContinueFail ==
    /\ client_pc = "continuing"
    /\ client_pc' = "continue_failing"
    /\ UNCHANGED <<conversation_history, messages, client_turn, client_incoming,
                   client_result, last_op, history_before, held, client_ops,
                   clientFrame>>

(* line 171 *)
ClientContinueRaise ==
    /\ client_pc = "continue_failing"
    /\ client_pc' = "idle"
    /\ last_op' = "continue_failed"
    /\ UNCHANGED <<conversation_history, messages, client_turn, client_incoming,
                   client_result,
                   history_before, held, client_ops, clientFrame>>

(* lines 173-175 *)
GetConversationHistory ==
    /\ client_pc = "idle"
    /\ client_ops < MaxClientOps
    /\ held' = ShallowCopy(conversation_history)
    /\ history_before' = conversation_history
    /\ last_op' = "history"
    /\ client_ops' = client_ops + 1
    /\ UNCHANGED <<conversation_history, messages, client_pc, client_turn, client_incoming,
                   client_result, clientFrame>>

(* lines 177-179 *)
ResetConversation ==
    /\ client_pc = "idle"
    /\ client_ops < MaxClientOps
    /\ history_before' = conversation_history
    /\ conversation_history' = ClearedHistory(conversation_history)
    /\ held' = Detached(held)
    /\ last_op' = "reset"
    /\ client_ops' = client_ops + 1
    /\ UNCHANGED <<messages, client_pc, client_turn, client_incoming,
                   client_result, clientFrame>>

(* the operations after which the caller works on the list it was given *)
CallerHolds == {"history", "held_append", "held_remove", "held_set"}

(* the caller appends a record of its own to the list it was given *)
HeldAppend(content) ==
    /\ client_pc = "idle"
    /\ client_ops < MaxClientOps
    /\ last_op \in CallerHolds
    /\ held' = Append(held, [alias |-> 0,
                             rec |-> [role |-> "user", content |-> content,
                                      turn |-> 0]])
    /\ history_before' = conversation_history
    /\ last_op' = "held_append"
    /\ client_ops' = client_ops + 1
    /\ UNCHANGED <<conversation_history, messages, client_pc, client_turn, client_incoming,
                   client_result, clientFrame>>

(* the caller removes the last record of the list it was given *)
HeldRemove ==
    /\ client_pc = "idle"
    /\ client_ops < MaxClientOps
    /\ last_op \in CallerHolds
    /\ held # <<>>
    /\ held' = SubSeq(held, 1, Len(held) - 1)
    /\ history_before' = conversation_history
    /\ last_op' = "held_remove"
    /\ client_ops' = client_ops + 1
    /\ UNCHANGED <<conversation_history, messages, client_pc, client_turn, client_incoming,
                   client_result, clientFrame>>

(* the caller assigns the content field of a record of the list it was     *)
(* given: the record is the object the client's list holds                 *)
HeldSetContent(i, content) ==
    /\ client_pc = "idle"
    /\ client_ops < MaxClientOps
    /\ last_op \in CallerHolds
    /\ i \in 1..Len(held)
    /\ held[i].rec.content # content
    /\ held' = [held EXCEPT ![i].rec.content = content]
    /\ conversation_history' =
           (IF held[i].alias = 0 THEN conversation_history
            ELSE [conversation_history EXCEPT ![held[i].alias].content = content])
    /\ history_before' = conversation_history
    /\ last_op' = "held_set"
    /\ client_ops' = client_ops + 1
    /\ UNCHANGED <<messages, client_pc, client_turn, client_incoming,
                   client_result, clientFrame>>

NextClient ==
    \/ \E topic \in ClientTopics : ClientStart(topic)
    \/ \E first_message \in ClientContents : ClientStartReturn(first_message)
    \/ ClientStartFail
    \/ ClientStartRaise
    \/ \E other_agent_response \in ClientIncoming, turn_number \in ClientTurnNumbers :
          ClientContinue(other_agent_response, turn_number)
    \/ \E content \in ClientContents : ClientContinueReturn(content)
    \/ ClientContinueFail
    \/ ClientContinueRaise
    \/ GetConversationHistory
    \/ ResetConversation
    \/ \E content \in ClientContents : HeldAppend(content)
    \/ HeldRemove
    \/ \E i \in 1..MaxClientOps, content \in {<<"x">>} : HeldSetContent(i, content)

SpecClient == InitDefault /\ [][NextClient]_vars

----------------------------------------------------------------------------
(* Properties *)

AgentA == "azure_ai_agent"

AgentB == "copilot_studio"

CopilotCalls == Cardinality({j \in 1..Len(calls) : calls[j].to = AgentB})

AllCopilotTurnsNonEmpty ==
    \A i \in 1..Len(turns) : turns[i].sender = AgentB => turns[i].message # <<>>

RECURSIVE EchoTimes(_, _)
EchoTimes(n, s) == IF n = 0 THEN s ELSE <<"e", "c", "h", "o", ":">> \o EchoTimes(n - 1, s)

(* C1: in every state during or after start_conversation the number of    *)
(* turns is at most MAX_TURNS, for every configured MAX_TURNS.             *)
C1_TurnCap == pc # "idle" => Len(turns) <= MAX_TURNS

(* C2: the turn at 0-based index i carries turn number i+1: numbering      *)
(* starts at 1 and has no gap and no repeat.                               *)
C2_Numbering == \A i \in 1..Len(turns) : turns[i].turn_number = i

C2_Witness == pc = "stream" /\ Len(turns) = 3

(* C3: a Copilot Studio turn that is empty after trimming is the last      *)
(* turn: the call has terminated, no endpoint call follows it, and when    *)
(* it answers the k-th Copilot Studio invocation there are 2k turns.       *)
C3_EmptyReplyEnds ==
    \A i \in 1..Len(turns) :
        (turns[i].sender = AgentB /\ turns[i].message = <<>>) =>
            /\ i = Len(turns)
            /\ pc = "done"
            /\ Len(calls) = i - 1
            /\ Len(turns) = 2 * CopilotCalls

C3_Witness ==
    /\ pc = "done"
    /\ Len(turns) = 4
    /\ Last(turns).sender = AgentB
    /\ Last(turns).message = <<>>
    /\ copilot_response # <<>>
    /\ MAX_TURNS > 4 - 1

(* C4 as stated: the loop is left only right after a Copilot Studio turn,  *)
(* never right after an Azure AI agent turn.                               *)
C4_ExitOnlyAfterCopilot ==
    (pc = "done" /\ Len(turns) > 1) => Last(turns).sender = AgentB

(* C4 amended: the loop is left right after an Azure AI agent turn exactly *)
(* when the cap is reached on it, which needs MAX_TURNS odd or below 2; in *)
(* every other case it is left right after a Copilot Studio turn.          *)
C4_ExitAfterAzureOnlyAtOddCap ==
    pc = "done" =>
        (Last(turns).sender = AgentA
            <=> (Len(turns) >= MAX_TURNS /\ (MAX_TURNS % 2 = 1 \/ MAX_TURNS < 2)))

C4_Witness ==
    /\ pc = "done"
    /\ MAX_TURNS = 3
    /\ Len(turns) = 3
    /\ Last(turns).sender = AgentA

(* C5: the turn numbered n is sent by the Azure AI agent when n is odd and *)
(* by Copilot Studio when n is even.                                       *)
C5_Alternation ==
    \A i \in 1..Len(turns) :
        turns[i].sender = (IF turns[i].turn_number % 2 = 1 THEN AgentA ELSE AgentB)

C5_Witness == pc = "done" /\ Len(turns) = 4 /\ starts = 1

(* C6: the j-th endpoint call receives the message of turn j, the text it  *)
(* produces (trimmed, for Copilot Studio) is the message of the next turn, *)
(* and when both endpoints echo and the topic is "Hello" turn k is         *)
(* "echo:" repeated k-1 times followed by "Hello".                         *)
C6_ContentThreading ==
    /\ \A j \in 1..Len(calls) :
          j <= Len(turns) /\ calls[j].input = turns[j].message
    /\ (pc \in {"await", "done", "sleep"} /\ Len(turns) > 1) =>
          Last(turns).message =
              (IF Last(turns).sender = AgentB
               THEN Strip(copilot_response) ELSE next_message)
    /\ (pc # "idle" /\ echoed /\ initial_topic = Hello) =>
          \A k \in 1..Len(turns) : turns[k].message = EchoTimes(k - 1, Hello)

C6_Witness ==
    /\ pc = "done"
    /\ echoed
    /\ initial_topic = Hello
    /\ Len(turns) = 4
    /\ Len(calls) = 3

(* C7 as stated: when every Copilot Studio answer is non-empty the call    *)
(* returns MAX_TURNS turns (MAX_TURNS >= 1) and the last one is a Copilot  *)
(* Studio turn.                                                            *)
C7_CapEndsOnCopilot ==
    (pc = "done" /\ MAX_TURNS >= 1 /\ CopilotCalls >= 1 /\ AllCopilotTurnsNonEmpty) =>
        (Len(turns) = MAX_TURNS /\ Last(turns).sender = AgentB)

(* C7 amended: when every Copilot Studio answer is non-empty after         *)
(* trimming the call returns exactly MAX_TURNS turns (MAX_TURNS >= 1); the *)
(* last one is a Copilot Studio turn when MAX_TURNS is even and an Azure   *)
(* AI agent turn when it is odd.                                           *)
C7_CapReached ==
    (pc = "done" /\ MAX_TURNS >= 1 /\ AllCopilotTurnsNonEmpty) =>
        /\ Len(turns) = MAX_TURNS
        /\ Last(turns).sender = (IF MAX_TURNS % 2 = 0 THEN AgentB ELSE AgentA)

C7_Witness ==
    /\ pc = "done"
    /\ MAX_TURNS = 4
    /\ Len(turns) = 4
    /\ AllCopilotTurnsNonEmpty
    /\ turns[3].message = <<>>
    /\ Last(turns).sender = AgentB

(* C8: a call that returns with fewer than MAX_TURNS turns ends on an      *)
(* empty Copilot Studio turn.                                              *)
C8_EarlyStopOnlyOnEmpty ==
    (pc = "done" /\ Len(turns) < MAX_TURNS) =>
        (Last(turns).sender = AgentB /\ Last(turns).message = <<>>)

C8_Witness ==
    /\ pc = "done"
    /\ MAX_TURNS = 4
    /\ Len(turns) = 2
    /\ activities # <<>>

(* C9: turn 1 is (1, Azure AI agent, the topic as passed), recorded before *)
(* any endpoint call; the Azure AI agent is not asked for it, and the      *)
(* first endpoint call goes to Copilot Studio with the topic.              *)
C9_SeedTurn ==
    pc # "idle" =>
        /\ turns[1].turn_number = 1
        /\ turns[1].sender = AgentA
        /\ turns[1].message = initial_topic
        /\ Len(calls) <= Len(turns)
        /\ calls # <<>> => (calls[1].to = AgentB /\ calls[1].input = initial_topic)
        /\ \A i \in 1..Len(conversation_history) : conversation_history[i].turn > 1

C9_Witness ==
    /\ pc = "stream"
    /\ Len(calls) = 1
    /\ initial_topic = <<" ", "t", " ">>
    /\ starts = 1

(* C10: a second start_conversation on the same orchestrator begins from a *)
(* cleared state: its turns are numbered from 1, turn 1 is the new topic   *)
(* and every later turn answers an endpoint call of this call.             *)
C10_FreshState ==
    (starts >= 2 /\ pc # "idle") =>
        /\ turns[1] = [turn_number |-> 1, sender |-> AgentA,
                       message |-> initial_topic, timestamp |-> 0]
        /\ \A i \in 1..Len(turns) : turns[i].turn_number = i
        /\ Len(turns) <= Len(calls) + 1
        /\ current_turn = Len(turns)

C10_Witness ==
    /\ starts = 2
    /\ prev_pc = "raised"
    /\ Len(prev_turns) = 2
    /\ initial_topic # prev_turns[1].message
    /\ pc = "done"
    /\ Len(turns) = 3

(* C11: once an endpoint call has failed the call of start_conversation    *)
(* is in its error exit or has ended with the error: the failed call is    *)
(* the last endpoint call                                                  *)
(* (no retry, no later call), no turn was appended for it, and the turns   *)
(* are exactly those recorded before it, turn i being the input of call i; *)
(* when the first Copilot Studio call fails only turn 1 exists.            *)
C11_FailureEndsCall ==
    failed =>
        /\ pc \in {"failing", "raised"}
        /\ Len(calls) >= 1
        /\ Len(turns) = Len(calls)
        /\ \A i \in 1..Len(calls) :
              turns[i].turn_number = i /\ turns[i].message = calls[i].input
        /\ Len(calls) = 1 =>
              turns = <<[turn_number |-> 1, sender |-> AgentA,
                         message |-> initial_topic, timestamp |-> 0]>>

C11_Witness ==
    /\ failed
    /\ Len(turns) = 3
    /\ Last(calls).to = AgentB
    /\ activities # <<>>
    /\ copilot_response # <<>>

(* the turns recorded before the endpoint calls issued so far: turn i is   *)
(* the input of call i                                                     *)
TurnsBeforeCalls ==
    [i \in 1..Len(calls) |->
        [turn_number |-> i,
         sender      |-> (IF i % 2 = 1 THEN AgentA ELSE AgentB),
         message     |-> calls[i].input,
         timestamp   |-> 0]]

(* the transcript of a turn list, entry by entry from the first turn *)
RECURSIVE TranscriptOf(_)
TranscriptOf(ts) ==
    IF ts = <<>> THEN <<>>
    ELSE <<"T", "u", "r", "n", " ">> \o Decimal(Head(ts).turn_number)
         \o <<" ", "-", " ">>
         \o (IF Head(ts).sender = AgentA THEN AzureLabel ELSE CopilotLabel)
         \o <<":", " ">> \o Head(ts).message \o <<"\n", "\n">>
         \o TranscriptOf(Tail(ts))

(* C12 as stated: after the error of an endpoint call has propagated the   *)
(* orchestrator exposes none of the turns recorded before the failure.     *)
C12_PartialTurnsDiscarded ==
    (failed /\ pc = "raised") =>
        /\ turns = <<>>
        /\ get_conversation_summary(turns).total_turns = 0
        /\ get_full_conversation_text(turns) = <<>>

(* C12 amended: after the error of an endpoint call has propagated only    *)
(* the return value is lost; turns, the summary and the transcript still   *)
(* expose exactly the turns recorded before the failure.                   *)
C12_PartialTurnsKept ==
    (failed /\ pc = "raised") =>
        /\ turns = TurnsBeforeCalls
        /\ get_conversation_summary(turns).total_turns = Len(calls)
        /\ get_conversation_summary(turns).turns =
              [i \in 1..Len(calls) |->
                  [turn |-> i, sender |-> TurnsBeforeCalls[i].sender,
                   message |-> calls[i].input]]
        /\ get_full_conversation_text(turns) = TranscriptOf(TurnsBeforeCalls)

C12_Witness ==
    /\ failed
    /\ pc = "raised"
    /\ Last(calls).to = AgentA
    /\ Len(turns) = 2
    /\ get_conversation_summary(turns).copilot_studio_turns = 1

(* C13: at most one endpoint call is in flight; the Azure AI agent is      *)
(* called only when the stream of the preceding Copilot Studio call has    *)
(* ended and its turn is recorded, and Copilot Studio is called again only *)
(* when the Azure AI agent's call has returned and its turn is recorded.   *)
C13_OneCallInFlight ==
    pc # "idle" =>
        /\ Len(calls) + 1 - Len(turns) \in {0, 1}
        /\ pc \in {"sleep", "done"} => Len(turns) = Len(calls) + 1
        /\ pc = "await" =>
              /\ Len(turns) = Len(calls)
              /\ Last(calls).to = AgentA
              /\ calls[Len(calls) - 1].to = AgentB
              /\ Last(turns).sender = AgentB
              /\ Last(calls).input = Last(turns).message
        /\ pc = "stream" =>
              /\ Len(turns) = Len(calls)
              /\ Last(calls).to = AgentB
              /\ Last(turns).sender = AgentA
              /\ Len(calls) > 1 => calls[Len(calls) - 1].to = AgentA

C13_Witness ==
    /\ pc = "stream"
    /\ Len(calls) = 3
    /\ Len(activities) = 1
    /\ starts = 1

(* C14: in every state the summary reports total_turns = len(turns), the   *)
(* two per-sender counts add up to it, and its turn list has the length    *)
(* and order of turns with the same number, sender and message.            *)
C14_SummaryMirrorsTurns ==
    LET summary == get_conversation_summary(turns)
    IN  /\ summary.total_turns = Len(turns)
        /\ summary.azure_ai_turns + summary.copilot_studio_turns = summary.total_turns
        /\ summary.turns =
              [i \in 1..Len(turns) |->
                  [turn    |-> turns[i].turn_number,
                   sender  |-> turns[i].sender,
                   message |-> turns[i].message]]

C14_Witness ==
    /\ pc = "sleep"
    /\ Len(turns) = 3
    /\ get_conversation_summary(turns).azure_ai_turns = 2
    /\ get_conversation_summary(turns).copilot_studio_turns = 1

(* the texts of the message activities of a stream, in arrival order *)
RECURSIVE MessageTexts(_)
MessageTexts(acts) ==
    IF acts = <<>> THEN <<>>
    ELSE (IF Head(acts).present /\ Head(acts).type = "message" /\ Head(acts).has_text
          THEN Head(acts).text ELSE <<>>)
         \o MessageTexts(Tail(acts))

IsTrimOf(message, text) ==
    /\ message # <<>> => (message[1] \notin Whitespace /\ Last(message) \notin Whitespace)
    /\ \E i \in 0..Len(text) :
          /\ i + Len(message) <= Len(text)
          /\ message = SubSeq(text, i + 1, i + Len(message))
          /\ \A k \in 1..Len(text) :
                (k <= i \/ k > i + Len(message)) => text[k] \in Whitespace

(* C20: the message of a Copilot Studio turn is the concatenation, in      *)
(* arrival order, of the texts of the message activities only, with        *)
(* leading and trailing whitespace removed; no message text or only        *)
(* whitespace gives the empty message.                                     *)
C20_CopilotTurnText ==
    (pc \in {"await", "done"} /\ Len(turns) > 1 /\ Last(turns).sender = AgentB) =>
        /\ IsTrimOf(Last(turns).message, MessageTexts(activities))
        /\ (\A k \in 1..Len(MessageTexts(activities)) :
                MessageTexts(activities)[k] \in Whitespace)
              => Last(turns).message = <<>>

C20_Witness ==
    /\ pc = "await"
    /\ Len(activities) = 2
    /\ activities[1].type = "typing"
    /\ activities[2].type = "message"
    /\ Last(turns).message = <<"b">>

(* C15: the transcript has one "Turn n - label: message" entry per stored  *)
(* turn in the stored order; a transcript or summary call leaves turns and *)
(* current_turn unchanged, and a call repeated from the same state returns *)
(* what the call before it returned.                                       *)
C15_TranscriptIdempotent ==
    /\ [](view.kind = "text" => view.text = TranscriptOf(turns))
    /\ [][view'.kind # "none" =>
            /\ turns' = turns
            /\ current_turn' = current_turn
            /\ view.kind = view'.kind =>
                  (view'.text = view.text /\ view'.summary = view.summary)]_vars

C15_Witness ==
    /\ view.kind = "text"
    /\ view.seq = 2
    /\ Len(turns) = 2
    /\ turns[2].sender = AgentB
    /\ turns[2].message # <<>>

(* C16: under the default MAX_TURNS = 20 every turn list that             *)
(* start_conversation returns normally has at least 2 turns, and the       *)
(* summary counts at least one Azure AI agent turn and at least one        *)
(* Copilot Studio turn, whatever the endpoints return.                     *)
C16_DefaultCapTwoSided ==
    /\ pc = "done" =>
          LET summary == get_conversation_summary(turns)
          IN  /\ Len(turns) >= 2
              /\ summary.total_turns >= 2
              /\ summary.azure_ai_turns >= 1
              /\ summary.copilot_studio_turns >= 1
    /\ pc = "sleep" => WhileCondition(current_turn)

C16_Witness ==
    /\ MAX_TURNS = 20
    /\ pc = "done"
    /\ Len(turns) = 2
    /\ turns[2].message = <<>>
    /\ Len(activities) = 1

(* C17: start_conversation of the client drops the whole history before   *)
(* the request is sent; after a successful call, whatever the history was  *)
(* before, it holds exactly one record: the returned first message with    *)
(* role assistant and turn 1.                                              *)
C17_StartDiscardsHistory ==
    /\ client_pc \in {"starting", "start_failing"} => conversation_history = <<>>
    /\ last_op = "start_ok" =>
          conversation_history =
             <<[role |-> "assistant", content |-> client_result, turn |-> 1]>>

C17_Witness ==
    /\ last_op = "start_ok"
    /\ Len(history_before) = 2
    /\ client_result = <<"a">>

(* C18: a failed call leaves nothing in the client's history: after a      *)
(* failed start_conversation the history has no record of the call, and    *)
(* after a failed continue_conversation the history equals the history     *)
(* before the call.                                                        *)
C18_FailureLeavesNoTrace ==
    /\ last_op = "start_failed" => conversation_history = <<>>
    /\ last_op = "continue_failed" => conversation_history = history_before

(* C19: get_conversation_history returns a defensive copy: nothing the     *)
(* caller does to the returned list or to a record of it changes the       *)
(* client's history or what a later get_conversation_history returns.      *)
C19_DefensiveCopy ==
    last_op \in {"held_append", "held_remove", "held_set"} =>
        conversation_history = history_before

(* C22: current_turn equals len(turns) in the initial state, at every      *)
(* suspension point of start_conversation, after it returned and after it  *)
(* was aborted by an endpoint error.                                       *)
C22_CounterMirrorsTurns == current_turn = Len(turns)

C22_Witness ==
    /\ pc = "raised"
    /\ starts = 2
    /\ Len(prev_turns) = 3
    /\ current_turn = 2
    /\ Len(turns) = 2

(* the record the client keeps for turn k of the turn list ts *)
RecordOf(ts, k) ==
    [role    |-> IF ts[k].sender = AgentB THEN "user" ELSE "assistant",
     content |-> ts[k].message,
     turn    |-> k]

(* the turns of the previous conversation that reached the client: all of  *)
(* them when the last one is the agent's own or was sent before the        *)
(* failure, all but the last one when the loop ended on Copilot Studio     *)
PrevRecorded ==
    IF Last(prev_turns).sender = AgentA \/ prev_pc = "raised"
    THEN Len(prev_turns) ELSE Len(prev_turns) - 1

(* C24: start_conversation never clears the client's history: at the       *)
(* first continue_conversation of a second conversation run with the same  *)
(* client, the history and the prompt still hold every record of the first *)
(* conversation, in order, before the record of the new incoming message.  *)
C24_HistorySurvivesRestart ==
    (starts = 2 /\ pc = "await" /\ Len(calls) = 2) =>
        /\ Len(conversation_history) = (PrevRecorded - 1) + 1
        /\ \A k \in 2..PrevRecorded :
              /\ conversation_history[k - 1] = RecordOf(prev_turns, k)
              /\ messages[k].role = RecordOf(prev_turns, k).role
              /\ messages[k].content = prev_turns[k].message
        /\ Last(conversation_history) = RecordOf(turns, 2)
        /\ Len(messages) = Len(conversation_history) + 2

C24_Witness ==
    /\ starts = 2
    /\ pc = "await"
    /\ Len(calls) = 2
    /\ prev_pc = "done"
    /\ Len(prev_turns) = 3
    /\ Len(conversation_history) = 3
    /\ conversation_history[2].role = "assistant"

(* C25: in the first conversation of a client with empty history, when an  *)
(* Azure AI agent turn n >= 3 has just been recorded the history has       *)
(* n - 1 records, the record for turn k (2 <= k <= n) has turn tag k, the  *)
(* message of turn k and role user for Copilot Studio turns, assistant for *)
(* the agent's own; no record stands for the seed turn 1.                  *)
C25_HistoryMirrorsTurns ==
    (starts = 1 /\ pc = "sleep" /\ Len(turns) >= 3) =>
        /\ Last(turns).sender = AgentA
        /\ Len(conversation_history) = Len(turns) - 1
        /\ \A k \in 2..Len(turns) :
              conversation_history[k - 1] = RecordOf(turns, k)
        /\ \A i \in 1..Len(conversation_history) :
              conversation_history[i].turn # 1

C25_Witness ==
    /\ starts = 1
    /\ pc = "sleep"
    /\ Len(turns) = 3
    /\ turns[2].message = <<"b">>
    /\ conversation_history[1] = [role |-> "user", content |-> <<"b">>, turn |-> 2]
    /\ conversation_history[2].role = "assistant"

(* C23: a successful continue_conversation(other_agent_response,          *)
(* turn_number) appends exactly two records, first the incoming message    *)
(* with role user and turn turn_number, then the returned message with     *)
(* role assistant and turn turn_number + 1, and changes no earlier record; *)
(* the prompt sent holds every history record in order, followed by an     *)
(* instruction that names turn turn_number + 1.                            *)
C23_ContinueAppendsTwo ==
    /\ last_op = "continue_ok" =>
          conversation_history =
             history_before
             \o <<[role |-> "user", content |-> client_incoming,
                   turn |-> client_turn],
                  [role |-> "assistant", content |-> client_result,
                   turn |-> client_turn + 1]>>
    /\ last_op \in {"continue_called", "continue_ok"} =>
          LET sent == history_before
                      \o <<[role |-> "user", content |-> client_incoming,
                            turn |-> client_turn]>>
          IN  /\ Len(messages) = Len(sent) + 2
              /\ messages[1] = [role |-> "system", content |-> SystemPrompt]
              /\ \A i \in 1..Len(sent) :
                    messages[i + 1] = [role |-> sent[i].role,
                                       content |-> sent[i].content]
              /\ Last(messages).role = "user"
              /\ Last(messages).content =
                    ContinuePrefix
                    \o (CASE client_turn = 1 -> <<"2">>
                          [] client_turn = 2 -> <<"3">>
                          [] client_turn = 9 -> <<"1", "0">>
                          [] OTHER -> Decimal(client_turn + 1))
                    \o ContinueSuffix

C23_Witness ==
    /\ last_op = "continue_ok"
    /\ Len(history_before) = 2
    /\ client_turn = 9
    /\ client_incoming = <<"b">>
    /\ client_result = <<"a">>

(* start_conversation has been called and has neither returned nor raised: *)
(* it is suspended at line 145 or 182, inside the stream of lines 155-158,  *)
(* in the endpoint call of line 174, or at line 170 of the client on the    *)
(* failure path (reached from line 174)                                     *)
Running == pc \in {"sleep", "stream", "await", "failing"}

(* C21 as stated: when every endpoint call returns, every                  *)
(* start_conversation call eventually returns, after at most               *)
(* MAX_TURNS - 1 endpoint calls, and never while a call is pending.        *)
C21_ReturnsWithinCapMinusOne ==
    /\ Running ~> (pc = "done")
    /\ [](pc = "done" =>
            /\ Len(calls) <= MAX_TURNS - 1
            /\ Len(turns) = Len(calls) + 1)

(* C21: when every endpoint call returns, every start_conversation call    *)
(* eventually returns, after at most MAX_TURNS - 1 endpoint calls when     *)
(* MAX_TURNS >= 1 and after none when MAX_TURNS < 1, and never while a     *)
(* call is pending.                                                        *)
C21_ReturnsWithinCallBudget ==
    /\ Running ~> (pc = "done")
    /\ [](pc = "done" =>
            /\ Len(calls) <= (IF MAX_TURNS >= 1 THEN MAX_TURNS - 1 ELSE 0)
            /\ Len(turns) = Len(calls) + 1)

C21_Witness ==
    /\ pc = "done"
    /\ MAX_TURNS = 3
    /\ Len(calls) = 2
    /\ starts = 1

=============================================================================
